---- MODULE Spec2Model ----
(***************************************************************************)
(* The payroll run engine of backend-v2 (controllers/payrollController.js) *)
(* as a state machine over the Supabase tables it reads and writes.        *)
(*                                                                         *)
(* Every `await supabase...` of a handler is one atomic store operation;   *)
(* the JavaScript that runs between two awaits touches only the handler's  *)
(* locals.  An action of the model is therefore one store operation        *)
(* together with the local code that follows it up to the next await (or   *)
(* up to the response).  Handlers of different requests interleave at      *)
(* their awaits.  Reads of tables no modelled handler writes (employees,   *)
(* employee_bank_details, allowances) are folded into the neighbouring     *)
(* store operation.                                                        *)
(*                                                                         *)
(* Money is counted in thousandths of a shilling, so that the rates        *)
(* 0.06, 0.0275, 0.015, 0.10 .. 0.35 stay integer arithmetic.              *)
(***************************************************************************)
EXTENDS Integers, Sequences, FiniteSets, TLC

\* ------------------------------------------------------------------ bounds
MaxCalls == 3
MaxFaults == 1
MaxEdits == 1

\* ------------------------------------------------------- static test data
Mils(x) == x * 1000
Null == 0 - 1
None == "none"
Today == 5

Companies == {"c1", "c2", "c3"}
\* companies.user_id: the user who owns each company
CompanyOwner == [c \in Companies |-> IF c = "c2" THEN "u2" ELSE "u1"]
Months == {1}
Years == {2025}
CallIds == 1..MaxCalls
RunIds == 1..MaxCalls

\* employees table (read-only here).  salary is in shillings, as stored.
Employees ==
  { [id |-> "e1", company_id |-> "c1", department_id |-> "d1", employee_status |-> "Active",
     salary |-> 50000, pays_paye |-> TRUE, pays_nssf |-> TRUE, shif_number |-> TRUE,
     pays_housing_levy |-> TRUE, pays_helb |-> TRUE],
    [id |-> "e2", company_id |-> "c1", department_id |-> "d1", employee_status |-> "Active",
     salary |-> 20000, pays_paye |-> FALSE, pays_nssf |-> TRUE, shif_number |-> FALSE,
     pays_housing_levy |-> TRUE, pays_helb |-> FALSE],
    [id |-> "e3", company_id |-> "c2", department_id |-> "d2", employee_status |-> "Active",
     salary |-> 30000, pays_paye |-> TRUE, pays_nssf |-> FALSE, shif_number |-> TRUE,
     pays_housing_levy |-> FALSE, pays_helb |-> TRUE],
    [id |-> "e4", company_id |-> "c3", department_id |-> "d3", employee_status |-> "Inactive",
     salary |-> 40000, pays_paye |-> TRUE, pays_nssf |-> TRUE, shif_number |-> TRUE,
     pays_housing_levy |-> TRUE, pays_helb |-> TRUE] }

EmployeeIds == {e.id : e \in Employees}
EmployeeOrder == <<"e1", "e2", "e3", "e4">>
Employee(id) == CHOOSE e \in Employees : e.id = id

\* allowances table (read-only here); end_date Null is an open end
Allowances ==
  { [id |-> "a1", company_id |-> "c1", employee_id |-> "e1", department_id |-> None,
     calculation_type |-> "Fixed", value |-> 5000, is_cash |-> TRUE, is_active |-> TRUE,
     start_date |-> 1, end_date |-> Null],
    [id |-> "a2", company_id |-> "c1", employee_id |-> None, department_id |-> "d1",
     calculation_type |-> "Percentage", value |-> 10, is_cash |-> FALSE, is_active |-> TRUE,
     start_date |-> 1, end_date |-> 9],
    [id |-> "a3", company_id |-> "c1", employee_id |-> "e2", department_id |-> None,
     calculation_type |-> "Fixed", value |-> 700, is_cash |-> TRUE, is_active |-> TRUE,
     start_date |-> 1, end_date |-> 3],
    [id |-> "a4", company_id |-> "c2", employee_id |-> "e3", department_id |-> None,
     calculation_type |-> "Fixed", value |-> 300, is_cash |-> TRUE, is_active |-> TRUE,
     start_date |-> 8, end_date |-> Null] }

\* deductions table: the columns no modelled handler writes; is_active is state
Deductions ==
  { [id |-> "x1", company_id |-> "c1", employee_id |-> "e1", department_id |-> None,
     calculation_type |-> "Fixed", value |-> 1000, is_one_time |-> TRUE,
     start_date |-> 1, end_date |-> Null],
    [id |-> "x2", company_id |-> "c1", employee_id |-> None, department_id |-> "d1",
     calculation_type |-> "Percentage", value |-> 2, is_one_time |-> FALSE,
     start_date |-> 1, end_date |-> Null],
    [id |-> "x3", company_id |-> "c2", employee_id |-> "e3", department_id |-> None,
     calculation_type |-> "Fixed", value |-> 500, is_one_time |-> TRUE,
     start_date |-> 1, end_date |-> Null],
    [id |-> "x4", company_id |-> "c2", employee_id |-> "e3", department_id |-> None,
     calculation_type |-> "Fixed", value |-> 40000, is_one_time |-> FALSE,
     start_date |-> 1, end_date |-> Null],
    [id |-> "x5", company_id |-> "c1", employee_id |-> "e2", department_id |-> None,
     calculation_type |-> "Fixed", value |-> 800, is_one_time |-> TRUE,
     start_date |-> 1, end_date |-> 3] }

DeductionIds == {d.id : d \in Deductions}

\* helb_deductions rows at the start: employee -> balance and monthly amount
InitialHelb == [e \in {"e1"} |-> [current_balance |-> Mils(10000), monthly_deduction |-> 2000]]
MonthlyChoices == {3000}

VARIABLES
  runs,       \* payroll_runs: run id -> row
  details,    \* payroll_details: set of rows
  helb,       \* helb_deductions: employee id -> row
  dedActive,  \* deductions.is_active: the ids of the active assignments
  calls,      \* the requests: call id -> handler position, locals, response
  nextRunId,  \* uuidv4(): the next fresh run id
  applied,    \* history: <<run, employee>> -> number of update_helb_balance calls made
  faults,     \* store calls that may still fail
  edits,      \* ledger edits that may still happen
  given,      \* the arguments of the calculator call made last, if one was made
  worked      \* what that call returned

vars == <<runs, details, helb, dedActive, calls, nextRunId, applied, faults, edits, given, worked>>

\* ------------------------------------------------------ statutory calculators
\* x * num / den, rounded down, without leaving 32 bits
Scale(x, num, den) == (x \div den) * num + ((x % den) * num) \div den

\* Math.round of an amount: to the nearest whole shilling, a half going up
MathRound(m) == ((m + 500) \div 1000) * 1000

personalRelief == 2400
tier1_cap == 8000
tier2_cap == 72000
Min(a, b) == IF a <= b THEN a ELSE b
Max(a, b) == IF a >= b THEN a ELSE b

calculatePAYE_Unfloored(taxableIncome) ==
  LET paye ==
        IF taxableIncome <= Mils(24000) THEN Scale(taxableIncome, 10, 100)
        ELSE IF taxableIncome <= Mils(32333)
          THEN Mils(2400) + Scale(taxableIncome - Mils(24000), 25, 100)
        ELSE IF taxableIncome <= Mils(500000)
          THEN Mils(2400) + 2083250 + Scale(taxableIncome - Mils(32333), 30, 100)
        ELSE IF taxableIncome <= Mils(800000)
          THEN Mils(2400) + 2083250 + 140300100 + Scale(taxableIncome - Mils(500000), 325, 1000)
        ELSE Mils(2400) + 2083250 + 140300100 + Mils(97500)
               + Scale(taxableIncome - Mils(800000), 35, 100)
  IN paye - Mils(personalRelief)

calculatePAYE(taxableIncome) ==
  LET paye ==
        IF taxableIncome <= Mils(24000) THEN Scale(taxableIncome, 10, 100)
        ELSE IF taxableIncome <= Mils(32333)
          THEN Mils(2400) + Scale(taxableIncome - Mils(24000), 25, 100)
        ELSE IF taxableIncome <= Mils(500000)
          THEN Mils(2400) + 2083250 + Scale(taxableIncome - Mils(32333), 30, 100)
        ELSE IF taxableIncome <= Mils(800000)
          THEN Mils(2400) + 2083250 + 140300100 + Scale(taxableIncome - Mils(500000), 325, 1000)
        ELSE Mils(2400) + 2083250 + 140300100 + Mils(97500)
               + Scale(taxableIncome - Mils(800000), 35, 100)
  IN Max(0, paye - Mils(personalRelief))

calculateNSSF_Uncapped(basicSalary) ==
  LET tier1 == Scale(Min(basicSalary, Mils(tier1_cap)), 6, 100)
      tier2 == IF basicSalary > Mils(tier1_cap)
                 THEN Scale(basicSalary - Mils(tier1_cap), 6, 100)
                 ELSE 0
  IN [tier1 |-> tier1, tier2 |-> tier2, total |-> tier1 + tier2]

calculateNSSF(basicSalary) ==
  LET tier1 == Scale(Min(basicSalary, Mils(tier1_cap)), 6, 100)
      tier2 == IF basicSalary > Mils(tier1_cap)
                 THEN Scale(Min(basicSalary - Mils(tier1_cap), Mils(tier2_cap) - Mils(tier1_cap)), 6, 100)
                 ELSE 0
  IN [tier1 |-> tier1, tier2 |-> tier2, total |-> tier1 + tier2]

calculateSHIF_Floored(grossSalary) == (Scale(grossSalary, 275, 10000) \div 1000) * 1000

calculateSHIF(grossSalary) == MathRound(Scale(grossSalary, 275, 10000))

calculateHousingLevy(grossSalary) == MathRound(Scale(grossSalary, 15, 1000))

\* ------------------------------------------------------ variable pay
\* the value of one assignment: Fixed amount, or Percentage of the basic salary
AssignmentValue(a, basicSalary) ==
  IF a.calculation_type = "Fixed" THEN Mils(a.value)
  ELSE IF a.calculation_type = "Percentage" THEN Scale(basicSalary, a.value, 100)
  ELSE 0

\* the allowances query of calculatePayroll
FetchAllowances(employee, companyId) ==
  { a \in Allowances :
      /\ (a.employee_id = employee.id \/ a.department_id = employee.department_id)
      /\ a.is_active
      /\ (a.end_date = Null \/ a.end_date >= Today)
      /\ a.company_id = companyId }

\* the deductions query of calculatePayroll, against the current is_active flags
FetchDeductions(employee, companyId, active) ==
  { d \in Deductions :
      /\ (d.employee_id = employee.id \/ d.department_id = employee.department_id)
      /\ d.id \in active
      /\ (d.end_date = Null \/ d.end_date >= Today)
      /\ d.company_id = companyId }

RECURSIVE SumValues(_, _)
SumValues(S, basicSalary) ==
  IF S = {} THEN 0
  ELSE LET a == CHOOSE x \in S : TRUE
       IN AssignmentValue(a, basicSalary) + SumValues(S \ {a}, basicSalary)

PayrollDetail_LoanNotDeducted(payrollRunId, employee, allowances, deductions, helbDeduction) ==
  LET basicSalary == Mils(employee.salary)
      totalAllowances == SumValues({a \in allowances : a.is_cash}, basicSalary)
      totalNonCashBenefits == SumValues({a \in allowances : ~a.is_cash}, basicSalary)
      totalCustomDeductions == SumValues(deductions, basicSalary)
      grossPay == basicSalary + totalAllowances
      nssfTiers == IF employee.pays_nssf THEN calculateNSSF(basicSalary)
                   ELSE [tier1 |-> 0, tier2 |-> 0, total |-> 0]
      nssfDeduction == nssfTiers.total
      shifDeduction == IF employee.shif_number THEN calculateSHIF(grossPay) ELSE 0
      housingLevyDeduction == IF employee.pays_housing_levy THEN calculateHousingLevy(grossPay) ELSE 0
      taxableIncome == grossPay - nssfDeduction - shifDeduction - housingLevyDeduction
                         - totalCustomDeductions
      payeTax == IF employee.pays_paye THEN calculatePAYE(taxableIncome) ELSE 0
      totalStatutory == nssfDeduction + shifDeduction + housingLevyDeduction + helbDeduction + payeTax
      totalDeductions == totalStatutory + totalCustomDeductions
      netPay == grossPay + totalNonCashBenefits - totalDeductions
  IN [payroll_run_id |-> payrollRunId, employee_id |-> employee.id,
      basic_salary |-> basicSalary, total_allowances |-> totalAllowances,
      total_non_cash_benefits |-> totalNonCashBenefits, total_deductions |-> totalDeductions,
      total_statutory_deductions |-> totalStatutory, gross_pay |-> grossPay,
      taxable_income |-> taxableIncome, paye_tax |-> payeTax, nssf_deduction |-> nssfDeduction,
      nssf_tier1_deduction |-> nssfTiers.tier1, nssf_tier2_deduction |-> nssfTiers.tier2,
      shif_deduction |-> shifDeduction, helb_deduction |-> helbDeduction,
      housing_levy_deduction |-> housingLevyDeduction, net_pay |-> netPay,
      deductions_details |-> {d.id : d \in deductions}]

\* one iteration of the employee loop, given what its three queries returned
PayrollDetail(payrollRunId, employee, allowances, deductions, helbDeduction) ==
  LET basicSalary == Mils(employee.salary)
      totalAllowances == SumValues({a \in allowances : a.is_cash}, basicSalary)
      totalNonCashBenefits == SumValues({a \in allowances : ~a.is_cash}, basicSalary)
      totalCustomDeductions == SumValues(deductions, basicSalary)
      grossPay == basicSalary + totalAllowances
      nssfTiers == IF employee.pays_nssf THEN calculateNSSF(basicSalary)
                   ELSE [tier1 |-> 0, tier2 |-> 0, total |-> 0]
      nssfDeduction == nssfTiers.total
      shifDeduction == IF employee.shif_number THEN calculateSHIF(grossPay) ELSE 0
      housingLevyDeduction == IF employee.pays_housing_levy THEN calculateHousingLevy(grossPay) ELSE 0
      taxableIncome == grossPay - nssfDeduction - shifDeduction - housingLevyDeduction
                         - helbDeduction - totalCustomDeductions
      payeTax == IF employee.pays_paye THEN calculatePAYE(taxableIncome) ELSE 0
      totalStatutory == nssfDeduction + shifDeduction + housingLevyDeduction + helbDeduction + payeTax
      totalDeductions == totalStatutory + totalCustomDeductions
      netPay == grossPay + totalNonCashBenefits - totalDeductions
  IN [payroll_run_id |-> payrollRunId, employee_id |-> employee.id,
      basic_salary |-> basicSalary, total_allowances |-> totalAllowances,
      total_non_cash_benefits |-> totalNonCashBenefits, total_deductions |-> totalDeductions,
      total_statutory_deductions |-> totalStatutory, gross_pay |-> grossPay,
      taxable_income |-> taxableIncome, paye_tax |-> payeTax, nssf_deduction |-> nssfDeduction,
      nssf_tier1_deduction |-> nssfTiers.tier1, nssf_tier2_deduction |-> nssfTiers.tier2,
      shif_deduction |-> shifDeduction, helb_deduction |-> helbDeduction,
      housing_levy_deduction |-> housingLevyDeduction, net_pay |-> netPay,
      deductions_details |-> {d.id : d \in deductions}]

\* ------------------------------------------------------ store helpers
\* a store call made now either takes effect or returns an error
StoreOutcomes == IF faults > 0 THEN {TRUE, FALSE} ELSE {TRUE}
Spend(ok) == faults' = IF ok THEN faults ELSE faults - 1

RunsOfPeriod(companyId, month, year) ==
  { r \in DOMAIN runs : /\ runs[r].company_id = companyId
                        /\ runs[r].payroll_month = month
                        /\ runs[r].payroll_year = year }

\* .maybeSingle(): the row when exactly one matches; no data when none matches;
\* no data and error PGRST116 when several match.  0 stands for no data.
MaybeSingle(S) == IF Cardinality(S) = 1 THEN CHOOSE r \in S : TRUE ELSE 0

ActiveEmployees_AnyStatus(companyId) ==
  SelectSeq(EmployeeOrder, LAMBDA id : Employee(id).company_id = companyId)

ActiveEmployees(companyId) ==
  SelectSeq(EmployeeOrder, LAMBDA id : /\ Employee(id).company_id = companyId
                                        /\ Employee(id).employee_status = "Active")

RunDetails(payrollRunId) == { d \in details : d.payroll_run_id = payrollRunId }

\* the rows of a details query, in the order the store returns them
DetailRows(payrollRunId) ==
  LET ids == SelectSeq(EmployeeOrder,
                       LAMBDA id : \E d \in RunDetails(payrollRunId) : d.employee_id = id)
  IN [i \in 1..Len(ids) |->
        CHOOSE d \in RunDetails(payrollRunId) : d.employee_id = ids[i]]

RECURSIVE SumField(_, _)
SumField(S, f) ==
  IF S = {} THEN 0
  ELSE LET d == CHOOSE x \in S : TRUE IN d[f] + SumField(S \ {d}, f)

\* update_helb_balance(p_employee_id, p_deduction_amount): a database function
UpdateHelbBalance(h, employeeId, amount) ==
  IF employeeId \in DOMAIN h
    THEN [h EXCEPT ![employeeId].current_balance = @ - amount]
    ELSE h

\* ------------------------------------------------------ requests
Idle == [kind |-> "idle", pc |-> "idle", status |-> 0, company |-> None, month |-> 0,
         year |-> 0, run |-> 0, old |-> 0, number |-> 0, todo |-> <<>>, fetched |-> {},
         rows |-> {}, dets |-> <<>>, did |-> {}, deact |-> FALSE, met |-> {}, found |-> 0,
         out |-> <<>>]

\* kind, pc, status: the handler, its position, the HTTP status it answered with;
\* company .. dets: the handler's locals; did, deact, met: history (the employees
\* whose ledger the request reduced, whether it deactivated the one-time deductions,
\* the requests that were in flight when it arrived, the run a calculate found
\* for its period and set out to replace, the rows and totals it computed)
\* the response is sent: the handler's locals are gone
Respond(me, code) ==
  [me EXCEPT !.pc = "done", !.status = code, !.old = 0, !.number = 0, !.todo = <<>>,
             !.fetched = {}, !.rows = {}, !.dets = <<>>]

IsNext(c) == /\ calls[c].kind = "idle"
             /\ \A d \in CallIds : d < c => calls[d].kind # "idle"

InFlight == { c \in CallIds : calls[c].pc \notin {"idle", "done"} }

Init ==
  /\ runs = <<>>
  /\ details = {}
  /\ helb = InitialHelb
  /\ dedActive = DeductionIds
  /\ calls = [c \in CallIds |-> Idle]
  /\ nextRunId = 1
  /\ applied = [p \in RunIds \X EmployeeIds |-> 0]
  /\ faults = MaxFaults
  /\ edits = MaxEdits
  /\ given = <<>>
  /\ worked = <<>>

\* ------------------------------------------------------ calculatePayroll
Put(f, k, v) == [x \in DOMAIN f \cup {k} |-> IF x = k THEN v ELSE f[x]]
Drop_Nothing(f, k) == f

Drop(f, k) == [x \in DOMAIN f \ {k} |-> f[x]]

\* if (!month || !year) return 400
CalcReject(c, companyId, month, year) ==
  /\ IsNext(c)
  /\ month = 0 \/ year = 0
  /\ calls' = [calls EXCEPT ![c] =
       Respond([Idle EXCEPT !.kind = "calculate", !.company = companyId,
                            !.month = month, !.year = year, !.met = InFlight], 400)]
  /\ UNCHANGED <<given, worked, runs, details, helb, dedActive, nextRunId, applied, faults, edits>>

AlreadyCompleted_Cancelled(existingRun) ==
  existingRun # 0 /\ runs[existingRun].status = "Cancelled"

\* existingRun && existingRun.status === 'Completed'
AlreadyCompleted(existingRun) == existingRun # 0 /\ runs[existingRun].status = "Completed"

\* 1. the lookup of an existing run of the period, and what the handler makes of it
CalcLookup(c, companyId, month, year) ==
  /\ IsNext(c)
  /\ month # 0 /\ year # 0
  /\ \E ok \in StoreOutcomes :
       /\ Spend(ok)
       /\ LET me == [Idle EXCEPT !.kind = "calculate", !.company = companyId,
                                 !.month = month, !.year = year, !.met = InFlight]
              existingRun == MaybeSingle(RunsOfPeriod(companyId, month, year))
          IN calls' = [calls EXCEPT ![c] =
               IF ~ok THEN Respond(me, 500)
               ELSE IF AlreadyCompleted(existingRun) THEN Respond(me, 409)
               ELSE IF existingRun # 0
                 THEN [me EXCEPT !.pc = "deleteRun", !.old = existingRun, !.found = existingRun]
               ELSE [me EXCEPT !.pc = "count"]]
  /\ UNCHANGED <<given, worked, runs, details, helb, dedActive, nextRunId, applied, edits>>

\* payroll_runs.delete().eq('id', existingRun.id); its error is not looked at
CalcDeleteRun(c) ==
  /\ calls[c].kind = "calculate" /\ calls[c].pc = "deleteRun"
  /\ \E ok \in StoreOutcomes :
       /\ Spend(ok)
       /\ runs' = IF ok /\ calls[c].old \in DOMAIN runs THEN Drop(runs, calls[c].old) ELSE runs
  /\ calls' = [calls EXCEPT ![c].pc = "deleteDetails"]
  /\ UNCHANGED <<given, worked, details, helb, dedActive, nextRunId, applied, edits>>

\* payroll_details.delete().eq('payroll_run_id', existingRun.id); error not looked at
CalcDeleteDetails(c) ==
  /\ calls[c].kind = "calculate" /\ calls[c].pc = "deleteDetails"
  /\ \E ok \in StoreOutcomes :
       /\ Spend(ok)
       /\ details' = IF ok THEN { d \in details : d.payroll_run_id # calls[c].old } ELSE details
  /\ calls' = [calls EXCEPT ![c].pc = "count", ![c].old = 0]
  /\ UNCHANGED <<given, worked, runs, helb, dedActive, nextRunId, applied, edits>>

\* 2.-4. the count for the payroll number, the active employees, their bank details
CalcCount(c) ==
  /\ calls[c].kind = "calculate" /\ calls[c].pc = "count"
  /\ \E ok \in StoreOutcomes :
       /\ Spend(ok)
       /\ LET me == calls[c]
              payrollCount == Cardinality(RunsOfPeriod(me.company, me.month, me.year))
              employees == ActiveEmployees(me.company)
          IN calls' = [calls EXCEPT ![c] =
               IF ~ok THEN Respond(me, 500)
               ELSE IF Len(employees) = 0 THEN Respond(me, 404)
               ELSE [me EXCEPT !.pc = "insertRun", !.number = payrollCount + 1,
                               !.todo = employees]]
  /\ UNCHANGED <<given, worked, runs, details, helb, dedActive, nextRunId, applied, edits>>

NewRun(me) ==
  [company_id |-> me.company, payroll_number |-> me.number, payroll_month |-> me.month,
   payroll_year |-> me.year, status |-> "Draft", total_gross_pay |-> Null,
   total_statutory_deductions |-> Null, total_paye |-> Null, total_net_pay |-> Null]

\* 5. payroll_runs.insert({... status: 'Draft'}); its error is not looked at
CalcInsertRun(c) ==
  /\ calls[c].kind = "calculate" /\ calls[c].pc = "insertRun"
  /\ nextRunId \in RunIds
  /\ \E ok \in StoreOutcomes :
       /\ Spend(ok)
       /\ runs' = IF ok THEN Put(runs, nextRunId, NewRun(calls[c])) ELSE runs
  /\ nextRunId' = nextRunId + 1
  /\ calls' = [calls EXCEPT ![c].pc = "assignments", ![c].run = nextRunId, ![c].number = 0]
  /\ UNCHANGED <<given, worked, details, helb, dedActive, applied, edits>>

\* the end of one iteration of the employee loop: the row is pushed
Pushed(me, row) ==
  [me EXCEPT !.rows = @ \cup {row}, !.todo = Tail(@), !.fetched = {},
             !.pc = IF Tail(me.todo) = <<>> THEN "insertDetails" ELSE "assignments"]

\* 6. the allowances and the deductions of the next employee
CalcFetchAssignments(c) ==
  /\ calls[c].kind = "calculate" /\ calls[c].pc = "assignments"
  /\ \E ok \in StoreOutcomes :
       /\ Spend(ok)
       /\ LET me == calls[c]
              employee == Employee(Head(me.todo))
              allowances == FetchAllowances(employee, me.company)
              deductions == FetchDeductions(employee, me.company, dedActive)
          IN calls' = [calls EXCEPT ![c] =
               IF ~ok THEN Respond(me, 500)
               ELSE IF employee.pays_helb
                 THEN [me EXCEPT !.pc = "helb", !.fetched = deductions]
               ELSE Pushed(me, PayrollDetail(me.run, employee, allowances, deductions, 0))]
  /\ UNCHANGED <<given, worked, runs, details, helb, dedActive, nextRunId, applied, edits>>

\* helbData ? parseFloat(helbData.monthly_deduction) : 0
HelbDeduction(employeeId) ==
  IF employeeId \in DOMAIN helb THEN Mils(helb[employeeId].monthly_deduction) ELSE 0

\* if (employee.pays_helb): the monthly amount of the employee's ledger row
CalcFetchHelb(c) ==
  /\ calls[c].kind = "calculate" /\ calls[c].pc = "helb"
  /\ \E ok \in StoreOutcomes :
       /\ Spend(ok)
       /\ LET me == calls[c]
              employee == Employee(Head(me.todo))
          IN calls' = [calls EXCEPT ![c] =
               IF ~ok THEN Respond(me, 500)
               ELSE Pushed(me, PayrollDetail(me.run, employee,
                                             FetchAllowances(employee, me.company),
                                             me.fetched, HelbDeduction(employee.id)))]
  /\ UNCHANGED <<given, worked, runs, details, helb, dedActive, nextRunId, applied, edits>>

CalcInsertDetails_ConsumesOneTime(c) ==
  /\ calls[c].kind = "calculate" /\ calls[c].pc = "insertDetails"
  /\ \E ok \in StoreOutcomes :
       /\ Spend(ok)
       /\ details' = IF ok THEN details \cup calls[c].rows ELSE details
  /\ dedActive' = dedActive \ { x \in DeductionIds :
                     \E d \in Deductions : d.id = x /\ d.is_one_time
                                            /\ \E row \in calls[c].rows : x \in row.deductions_details }
  /\ calls' = [calls EXCEPT ![c].pc = "totals"]
  /\ UNCHANGED <<given, worked, runs, helb, nextRunId, applied, edits>>

\* 7. payroll_details.insert(payrollDetailsToInsert); its error is not looked at
CalcInsertDetails(c) ==
  /\ calls[c].kind = "calculate" /\ calls[c].pc = "insertDetails"
  /\ \E ok \in StoreOutcomes :
       /\ Spend(ok)
       /\ details' = IF ok THEN details \cup calls[c].rows ELSE details
  /\ calls' = [calls EXCEPT ![c].pc = "totals"]
  /\ UNCHANGED <<given, worked, runs, helb, dedActive, nextRunId, applied, edits>>

\* a detail row without the id of its run
Unbound(row) == [row EXCEPT !.payroll_run_id = 0]

\* history: the rows and the totals the handler has computed when it answers
Computed(me) ==
  <<{Unbound(row) : row \in me.rows},
    SumField(me.rows, "gross_pay"), SumField(me.rows, "total_statutory_deductions"),
    SumField(me.rows, "paye_tax"), SumField(me.rows, "net_pay")>>

CalcUpdateTotals_PayeFromStatutory(c) ==
  /\ calls[c].kind = "calculate" /\ calls[c].pc = "totals"
  /\ \E ok \in StoreOutcomes :
       /\ Spend(ok)
       /\ LET me == calls[c] IN
          runs' = IF ok /\ me.run \in DOMAIN runs
                    THEN [runs EXCEPT ![me.run] =
                            [@ EXCEPT !.total_gross_pay = SumField(me.rows, "gross_pay"),
                                      !.total_statutory_deductions =
                                          SumField(me.rows, "total_statutory_deductions"),
                                      !.total_paye =
                                          SumField(me.rows, "total_statutory_deductions"),
                                      !.total_net_pay = SumField(me.rows, "net_pay")]]
                    ELSE runs
  /\ calls' = [calls EXCEPT ![c] = [Respond(calls[c], 200) EXCEPT !.out = Computed(calls[c])]]
  /\ UNCHANGED <<given, worked, details, helb, dedActive, nextRunId, applied, edits>>

\* 8. payroll_runs.update({totals}).eq('id', payrollRunId), then 200
CalcUpdateTotals(c) ==
  /\ calls[c].kind = "calculate" /\ calls[c].pc = "totals"
  /\ \E ok \in StoreOutcomes :
       /\ Spend(ok)
       /\ LET me == calls[c] IN
          runs' = IF ok /\ me.run \in DOMAIN runs
                    THEN [runs EXCEPT ![me.run] =
                            [@ EXCEPT !.total_gross_pay = SumField(me.rows, "gross_pay"),
                                      !.total_statutory_deductions =
                                          SumField(me.rows, "total_statutory_deductions"),
                                      !.total_paye = SumField(me.rows, "paye_tax"),
                                      !.total_net_pay = SumField(me.rows, "net_pay")]]
                    ELSE runs
  /\ calls' = [calls EXCEPT ![c] = [Respond(calls[c], 200) EXCEPT !.out = Computed(calls[c])]]
  /\ UNCHANGED <<given, worked, details, helb, dedActive, nextRunId, applied, edits>>

\* ------------------------------------------------------ completePayrollRun
NotDraft_OnlyCancelled(run) == run.status = "Cancelled"

\* if (run.status !== 'Draft') return 400
NotDraft(run) == run.status # "Draft"

\* 1. the run is read and its status checked
CompleteFetchRun(c, payrollRunId) ==
  /\ IsNext(c)
  /\ \E ok \in StoreOutcomes :
       /\ Spend(ok)
       /\ LET me == [Idle EXCEPT !.kind = "complete", !.run = payrollRunId, !.met = InFlight] IN
          calls' = [calls EXCEPT ![c] =
            IF ~ok THEN Respond(me, 500)
            ELSE IF payrollRunId \notin DOMAIN runs THEN Respond(me, 404)
            ELSE IF NotDraft(runs[payrollRunId]) THEN Respond(me, 400)
            ELSE [me EXCEPT !.pc = "details", !.company = runs[payrollRunId].company_id]]
  /\ UNCHANGED <<given, worked, runs, details, helb, dedActive, nextRunId, applied, edits>>

\* if (detail.helb_deduction > 0)
NeedsHelbUpdate(detail) == detail.helb_deduction > 0

\* 2. the run's details are read; the loop skips the rows with no HELB deduction
CompleteFetchDetails(c) ==
  /\ calls[c].kind = "complete" /\ calls[c].pc = "details"
  /\ \E ok \in StoreOutcomes :
       /\ Spend(ok)
       /\ LET me == calls[c]
              todo == SelectSeq(DetailRows(me.run), NeedsHelbUpdate)
          IN calls' = [calls EXCEPT ![c] =
               IF ~ok THEN Respond(me, 500)
               ELSE [me EXCEPT !.dets = todo,
                               !.pc = IF todo = <<>> THEN "deactivate" ELSE "helb"]]
  /\ UNCHANGED <<given, worked, runs, details, helb, dedActive, nextRunId, applied, edits>>

DeductionAmount_Monthly(detail) == HelbDeduction(detail.employee_id)

\* p_deduction_amount: detail.helb_deduction
DeductionAmount(detail) == detail.helb_deduction

\* supabase.rpc('update_helb_balance', ...) for the next row; error not looked at
CompleteUpdateHelb(c) ==
  /\ calls[c].kind = "complete" /\ calls[c].pc = "helb"
  /\ \E ok \in StoreOutcomes :
       /\ Spend(ok)
       /\ LET me == calls[c]
              detail == Head(me.dets)
              e == detail.employee_id
          IN /\ helb' = IF ok THEN UpdateHelbBalance(helb, e, DeductionAmount(detail)) ELSE helb
             /\ applied' = IF ok THEN [applied EXCEPT ![<<me.run, e>>] = @ + 1] ELSE applied
             /\ calls' = [calls EXCEPT ![c] =
                  [me EXCEPT !.dets = Tail(@),
                             !.did = IF ok THEN @ \cup {e} ELSE @,
                             !.pc = IF Tail(me.dets) = <<>> THEN "deactivate" ELSE "helb"]]
  /\ UNCHANGED <<given, worked, runs, details, dedActive, nextRunId, edits>>

\* .eq('is_one_time', true).eq('company_id', run.company_id)
OneTimeDeductions(companyId) ==
  { d.id : d \in { x \in Deductions : x.is_one_time /\ x.company_id = companyId } }

\* deductions.update({ is_active: false }) on those; error not looked at
CompleteDeactivate(c) ==
  /\ calls[c].kind = "complete" /\ calls[c].pc = "deactivate"
  /\ \E ok \in StoreOutcomes :
       /\ Spend(ok)
       /\ dedActive' = IF ok THEN dedActive \ OneTimeDeductions(calls[c].company) ELSE dedActive
       /\ calls' = [calls EXCEPT ![c].pc = "status", ![c].deact = ok]
  /\ UNCHANGED <<given, worked, runs, details, helb, nextRunId, applied, edits>>

\* 3. payroll_runs.update({ status: 'Completed' }).eq('id', payrollRunId).select().single()
CompleteUpdateStatus(c) ==
  /\ calls[c].kind = "complete" /\ calls[c].pc = "status"
  /\ \E ok \in StoreOutcomes :
       /\ Spend(ok)
       /\ LET me == calls[c]
              updated == ok /\ me.run \in DOMAIN runs
          IN /\ runs' = IF updated THEN [runs EXCEPT ![me.run].status = "Completed"] ELSE runs
             /\ calls' = [calls EXCEPT ![c] = Respond(me, IF updated THEN 200 ELSE 500)]
  /\ UNCHANGED <<given, worked, details, helb, dedActive, nextRunId, applied, edits>>

\* ------------------------------------------------------ cancelPayrollRun
CancelPayrollRun_AnyStatus(c, payrollRunId) ==
  /\ IsNext(c)
  /\ \E ok \in StoreOutcomes :
       /\ Spend(ok)
       /\ LET me == [Idle EXCEPT !.kind = "cancel", !.run = payrollRunId, !.met = InFlight]
              hit == ok /\ payrollRunId \in DOMAIN runs
          IN /\ runs' = IF hit THEN [runs EXCEPT ![payrollRunId].status = "Cancelled"] ELSE runs
             /\ calls' = [calls EXCEPT ![c] =
                  Respond(me, IF ~ok THEN 500 ELSE IF hit THEN 200 ELSE 404)]
  /\ UNCHANGED <<given, worked, details, helb, dedActive, nextRunId, applied, edits>>

CancelPayrollRun_Cascade(c, payrollRunId) ==
  /\ IsNext(c)
  /\ \E ok \in StoreOutcomes :
       /\ Spend(ok)
       /\ LET me == [Idle EXCEPT !.kind = "cancel", !.run = payrollRunId, !.met = InFlight]
              hit == /\ ok
                     /\ payrollRunId \in DOMAIN runs
                     /\ runs[payrollRunId].status = "Draft"
          IN /\ runs' = IF hit THEN [runs EXCEPT ![payrollRunId].status = "Cancelled"] ELSE runs
             /\ details' = IF hit THEN { d \in details : d.payroll_run_id # payrollRunId }
                                  ELSE details
             /\ calls' = [calls EXCEPT ![c] =
                  Respond(me, IF ~ok THEN 500 ELSE IF hit THEN 200 ELSE 404)]
  /\ UNCHANGED <<given, worked, helb, dedActive, nextRunId, applied, edits>>

\* update({ status: 'Cancelled' }).eq('id', payrollRunId).eq('status', 'Draft')
CancelPayrollRun(c, payrollRunId) ==
  /\ IsNext(c)
  /\ \E ok \in StoreOutcomes :
       /\ Spend(ok)
       /\ LET me == [Idle EXCEPT !.kind = "cancel", !.run = payrollRunId, !.met = InFlight]
              hit == /\ ok
                     /\ payrollRunId \in DOMAIN runs
                     /\ runs[payrollRunId].status = "Draft"
          IN /\ runs' = IF hit THEN [runs EXCEPT ![payrollRunId].status = "Cancelled"] ELSE runs
             /\ calls' = [calls EXCEPT ![c] =
                  Respond(me, IF ~ok THEN 500 ELSE IF hit THEN 200 ELSE 404)]
  /\ UNCHANGED <<given, worked, details, helb, dedActive, nextRunId, applied, edits>>

\* ------------------------------------------------------ updateHelbRecord
\* helb_deductions.update({ monthly_deduction }).eq('employee_id', employeeId)
UpdateHelbRecord(employeeId, monthly) ==
  /\ edits > 0
  /\ employeeId \in DOMAIN helb
  /\ helb' = [helb EXCEPT ![employeeId].monthly_deduction = monthly]
  /\ edits' = edits - 1
  /\ UNCHANGED <<given, worked, runs, details, dedActive, calls, nextRunId, applied, faults>>

\* ------------------------------------------------------ specifications
MonthInputs == Months \cup {0}
KnownRuns == 1..(nextRunId - 1)

Step(c) ==
  \/ CalcDeleteRun(c)
  \/ CalcDeleteDetails(c)
  \/ CalcCount(c)
  \/ CalcInsertRun(c)
  \/ CalcFetchAssignments(c)
  \/ CalcFetchHelb(c)
  \/ CalcInsertDetails(c)
  \/ CalcUpdateTotals(c)
  \/ CompleteFetchDetails(c)
  \/ CompleteUpdateHelb(c)
  \/ CompleteDeactivate(c)
  \/ CompleteUpdateStatus(c)

Begin(c) ==
  \/ \E companyId \in Companies, month \in MonthInputs, year \in Years :
       CalcReject(c, companyId, month, year)
  \/ \E companyId \in Companies, month \in MonthInputs, year \in Years :
       CalcLookup(c, companyId, month, year)
  \/ \E payrollRunId \in KnownRuns : CompleteFetchRun(c, payrollRunId)
  \/ \E payrollRunId \in KnownRuns : CancelPayrollRun(c, payrollRunId)

Edit == \E e \in EmployeeIds, m \in MonthlyChoices : UpdateHelbRecord(e, m)

\* requests interleave at their store calls; a store call may fail
Next == \/ \E c \in CallIds : Begin(c)
        \/ \E c \in CallIds : Step(c)
        \/ Edit

Spec == Init /\ [][Next]_vars

\* one request at a time, against a store whose calls all take effect
InitSeq ==
  /\ runs = <<>>
  /\ details = {}
  /\ helb = InitialHelb
  /\ dedActive = DeductionIds
  /\ calls = [c \in CallIds |-> Idle]
  /\ nextRunId = 1
  /\ applied = [p \in RunIds \X EmployeeIds |-> 0]
  /\ faults = 0
  /\ edits = MaxEdits
  /\ given = <<>>
  /\ worked = <<>>

NextSeq == \/ \E c \in CallIds : InFlight = {} /\ Begin(c)
           \/ \E c \in CallIds : Step(c)
           \/ InFlight = {} /\ Edit

SpecSeq == InitSeq /\ [][NextSeq]_vars

\* one request at a time, against a store whose calls may fail
SpecSeqFaulty == Init /\ [][NextSeq]_vars

\* ------------------------------------------------------ the calculators alone
\* taxable incomes, in thousandths: the band edges, their neighbours, some more
Incomes ==
  {0, 1, Mils(10000), Mils(24000) - 1, Mils(24000), Mils(24000) + 1, Mils(24001),
   Mils(32333) - 1, Mils(32333), Mils(32333) + 1, Mils(44875), Mils(100000),
   Mils(500000) - 1, Mils(500000), Mils(500000) + 1, Mils(800000) - 1, Mils(800000),
   Mils(800000) + 1, Mils(1000000)}

\* base salaries, in shillings
Salaries == {0, 1, 7999, 8000, 8001, 20000, 50000, 71999, 72000, 72001, 100000, 500000}

\* gross pays, in thousandths
Grosses ==
  {0, 18, 19, Mils(18), Mils(19), Mils(33), Mils(34), Mils(100), Mils(200), Mils(50000), Mils(50010),
   Mils(50018), Mils(50019), Mils(55000), Mils(100000)}

\* rows of the employees query
InputEmployees ==
  [id : {"e1"}, company_id : {"c1"}, department_id : {"d1"}, employee_status : {"Active"},
   salary : {0, 20000, 50000, 100000}, pays_paye : BOOLEAN, pays_nssf : BOOLEAN,
   shif_number : BOOLEAN, pays_housing_levy : BOOLEAN, pays_helb : BOOLEAN]

\* what the helb_deductions query may return: no row, or the row's monthly amount
HelbRows == {Null, 2000}

TaxOf(a, b) ==
  /\ given' = <<"paye", a, b>>
  /\ worked' = <<calculatePAYE(a), calculatePAYE(b)>>
  /\ UNCHANGED <<runs, details, helb, dedActive, calls, nextRunId, applied, faults, edits>>

PensionOf(basicSalary) ==
  /\ given' = <<"nssf", basicSalary>>
  /\ worked' = calculateNSSF(Mils(basicSalary))
  /\ UNCHANGED <<runs, details, helb, dedActive, calls, nextRunId, applied, faults, edits>>

LeviesOf(grossSalary) ==
  /\ given' = <<"levies", grossSalary>>
  /\ worked' = <<calculateSHIF(grossSalary), calculateHousingLevy(grossSalary)>>
  /\ UNCHANGED <<runs, details, helb, dedActive, calls, nextRunId, applied, faults, edits>>

DetailOf_LoanUngated(employee, allowances, deductions, helbData) ==
  /\ given' = <<"detail", employee, allowances, deductions, helbData>>
  /\ worked' = PayrollDetail(1, employee, allowances, deductions,
                             IF helbData # Null THEN Mils(helbData) ELSE 0)
  /\ UNCHANGED <<runs, details, helb, dedActive, calls, nextRunId, applied, faults, edits>>

\* one iteration of the employee loop, given the rows its three queries return
DetailOf(employee, allowances, deductions, helbData) ==
  /\ given' = <<"detail", employee, allowances, deductions, helbData>>
  /\ worked' = PayrollDetail(1, employee, allowances, deductions,
                             IF employee.pays_helb /\ helbData # Null THEN Mils(helbData) ELSE 0)
  /\ UNCHANGED <<runs, details, helb, dedActive, calls, nextRunId, applied, faults, edits>>

\* rows of the allowances and of the deductions query for an employee of c1
AllowanceRows == SUBSET { a \in Allowances : a.company_id = "c1" }
DeductionRows == SUBSET { d \in Deductions : d.company_id = "c1" }

\* each run makes one call
NextCalc ==
  \/ given = <<>> /\ \E a \in Incomes, b \in Incomes : TaxOf(a, b)
  \/ given = <<>> /\ \E basicSalary \in Salaries : PensionOf(basicSalary)
  \/ given = <<>> /\ \E grossSalary \in Grosses : LeviesOf(grossSalary)
  \/ given = <<>> /\ \E employee \in InputEmployees, allowances \in AllowanceRows,
                        deductions \in DeductionRows, helbData \in HelbRows :
                     DetailOf(employee, allowances, deductions, helbData)

\* the calculators and the loop body applied to inputs of their own
SpecCalc == InitSeq /\ [][NextCalc]_vars

\* ------------------------------------------------------ properties
Periods == Companies \X Months \X Years
Done(c, kind) == calls[c].kind = kind /\ calls[c].pc = "done"
SamePeriod(c, d) == /\ calls[c].company = calls[d].company
                    /\ calls[c].month = calls[d].month
                    /\ calls[c].year = calls[d].year
Overlapped(c, d) == c \in calls[d].met \/ d \in calls[c].met
\* the run has one detail for each active employee of its company
FullyDetailed(r) ==
  {d.employee_id : d \in RunDetails(r)} =
    {e.id : e \in {x \in Employees : /\ x.company_id = runs[r].company_id
                                     /\ x.employee_status = "Active"}}

\* C1: in every reachable state at most one run that is not Cancelled exists for
\* any (tenant, month, year), whatever the interleaving of calculate, complete
\* and cancel.
C1_OneLiveRunPerPeriod ==
  \A p \in Periods :
    Cardinality({ r \in RunsOfPeriod(p[1], p[2], p[3]) : runs[r].status # "Cancelled" }) <= 1

\* C2: of two calculate calls for the same (tenant, month, year) that overlap in
\* time at most one returns success (the other is refused).
C2_OverlapOneWins ==
  \A c, d \in CallIds :
    ( /\ c # d
      /\ Done(c, "calculate") /\ Done(d, "calculate")
      /\ SamePeriod(c, d) /\ Overlapped(c, d)
      /\ calls[c].status = 200 )
    => calls[d].status # 200

\* C3: a calculate call that ended in an error after it created its run has left
\* no run behind, or has left the run with all of its per-employee details.
C3_NoPartialDraft ==
  \A c \in CallIds :
    ( /\ Done(c, "calculate")
      /\ calls[c].status = 500
      /\ calls[c].run \in DOMAIN runs )
    => FullyDetailed(calls[c].run)

\* C4: the ledger and the one-time flags carry effects of a complete call only
\* if that call's status transition committed: the call has answered 200 and
\* its run exists and is Completed.
C4_EffectsOnlyIfCommitted ==
  \A c \in CallIds :
    ( /\ Done(c, "complete")
      /\ (calls[c].did # {} \/ calls[c].deact) )
    => /\ calls[c].status = 200
       /\ calls[c].run \in DOMAIN runs
       /\ runs[calls[c].run].status = "Completed"

\* C6: in any interleaving of complete calls, update_helb_balance takes effect at
\* most once per (employee, run).
C6_AppliedAtMostOnce ==
  \A p \in RunIds \X EmployeeIds : applied[p] <= 1

\* the complete calls on run r that answered 200
Completions(r) ==
  { c \in CallIds : Done(c, "complete") /\ calls[c].run = r /\ calls[c].status = 200 }

\* a complete call arrives for a run that is Completed or Cancelled: it is
\* answered with an error at once and no table changes
C5_Refused ==
  \A c \in CallIds :
    ( /\ calls[c].kind = "idle" /\ calls'[c].kind = "complete"
      /\ calls'[c].run \in DOMAIN runs
      /\ runs[calls'[c].run].status \in {"Completed", "Cancelled"} )
    => /\ calls'[c].pc = "done"
       /\ calls'[c].status >= 400
       /\ UNCHANGED <<runs, details, helb, dedActive, applied>>

\* between requests: a run was completed by at most one call, and the ledger of
\* each employee was reduced once for a completed run's positive loan deduction
\* and never for any other run or row
C5_Once ==
  InFlight = {} =>
    \A r \in RunIds :
      /\ Cardinality(Completions(r)) <= 1
      /\ \A e \in EmployeeIds :
           applied[<<r, e>>] =
             IF /\ Completions(r) # {}
                /\ \E d \in RunDetails(r) : d.employee_id = e /\ d.helb_deduction > 0
               THEN 1 ELSE 0

\* C5: complete on a run that is Completed or Cancelled returns an error and
\* changes nothing; of two complete calls in succession on a run the first
\* succeeds, the second fails, and each employee's ledger is reduced exactly once.
C5_CompleteOnlyFromDraft == []C5_Once /\ [][C5_Refused]_vars

C5_Witness ==
  \E c, d \in CallIds :
    /\ Done(c, "complete") /\ Done(d, "complete")
    /\ calls[c].run = calls[d].run
    /\ calls[c].status = 200 /\ calls[d].status = 400
    /\ applied[<<calls[c].run, "e1">>] = 1

\* the loan deduction run r recorded for employee e
LoanOf(r, e) == SumField({ d \in RunDetails(r) : d.employee_id = e }, "helb_deduction")

RECURSIVE LoansOf(_, _)
LoansOf(R, e) ==
  IF R = {} THEN 0
  ELSE LET r == CHOOSE x \in R : TRUE IN LoanOf(r, e) + LoansOf(R \ {r}, e)

\* C7: after a successful complete of a Draft run the run is Completed, every
\* one-time deduction of its tenant is inactive, and each ledger balance is lower
\* by exactly the loan deductions recorded in the details of the completed runs
\* (not by the ledger's current monthly amount; unchanged where the detail has none).
C7_CompletePostcondition ==
  InFlight = {} =>
    /\ \A c \in CallIds :
         (Done(c, "complete") /\ calls[c].status = 200)
         => /\ calls[c].run \in DOMAIN runs
            /\ runs[calls[c].run].status = "Completed"
            /\ OneTimeDeductions(runs[calls[c].run].company_id) \cap dedActive = {}
    /\ \A e \in DOMAIN helb :
         helb[e].current_balance =
           InitialHelb[e].current_balance
             - LoansOf({ r \in DOMAIN runs : Completions(r) # {} }, e)

C7_Witness ==
  /\ InFlight = {}
  /\ \E c \in CallIds :
       /\ Done(c, "complete") /\ calls[c].status = 200
       /\ LoanOf(calls[c].run, "e1") > 0
       /\ LoanOf(calls[c].run, "e1") # Mils(helb["e1"].monthly_deduction)
       /\ helb["e1"].current_balance =
            InitialHelb["e1"].current_balance - LoanOf(calls[c].run, "e1")
       /\ LoanOf(calls[c].run, "e2") = 0

\* C8: once a run is Completed or Cancelled it is never deleted and neither the
\* run nor its details change.
C8_TerminalImmutable ==
  [][ \A r \in DOMAIN runs :
        runs[r].status \in {"Completed", "Cancelled"}
        => /\ r \in DOMAIN runs'
           /\ runs'[r] = runs[r]
           /\ { d \in details' : d.payroll_run_id = r } = RunDetails(r) ]_vars

\* C9: a run is created in Draft and its status only ever changes from Draft to
\* Completed or from Draft to Cancelled.
C9_StatusTransitions ==
  [][ /\ \A r \in DOMAIN runs' \ DOMAIN runs : runs'[r].status = "Draft"
      /\ \A r \in DOMAIN runs \cap DOMAIN runs' :
           \/ runs'[r].status = runs[r].status
           \/ /\ runs[r].status = "Draft"
              /\ runs'[r].status \in {"Completed", "Cancelled"} ]_vars

\* C10: a calculate call that arrives for a period whose run is Completed is
\* answered 409 at once; the run, its details and totals stay as they are and no
\* run is created.
C10_CompletedIsRejected ==
  [][ \A c \in CallIds :
        ( /\ calls[c].kind = "idle" /\ calls'[c].kind = "calculate"
          /\ calls'[c].month # 0 /\ calls'[c].year # 0
          /\ \E r \in RunsOfPeriod(calls'[c].company, calls'[c].month, calls'[c].year) :
               runs[r].status = "Completed" )
        => /\ calls'[c].pc = "done"
           /\ calls'[c].status = 409
           /\ UNCHANGED <<runs, details, nextRunId>> ]_vars

C10_Witness ==
  \E c \in CallIds :
    /\ Done(c, "calculate") /\ calls[c].status = 409
    /\ \E r \in RunsOfPeriod(calls[c].company, calls[c].month, calls[c].year) :
         /\ runs[r].status = "Completed"
         /\ FullyDetailed(r)
         /\ runs[r].total_net_pay # Null

\* no request has arrived after request c
Latest(c) == \A d \in CallIds : d > c => calls[d].kind = "idle"

ActiveIds(companyId) ==
  { e.id : e \in { x \in Employees : x.company_id = companyId /\ x.employee_status = "Active" } }

\* C11: after calculate succeeds for a period that had a Draft run, the old run
\* and its details are gone, the period has exactly one run, it is Draft, and it
\* has exactly one detail per active employee of the tenant.
C11_RecomputeReplaces ==
  \A c \in CallIds :
    ( /\ Done(c, "calculate") /\ calls[c].status = 200
      /\ calls[c].found # 0
      /\ Latest(c) )
    => /\ calls[c].found \notin DOMAIN runs
       /\ RunDetails(calls[c].found) = {}
       /\ RunsOfPeriod(calls[c].company, calls[c].month, calls[c].year) = {calls[c].run}
       /\ runs[calls[c].run].status = "Draft"
       /\ {d.employee_id : d \in RunDetails(calls[c].run)} = ActiveIds(calls[c].company)
       /\ Cardinality(RunDetails(calls[c].run)) = Cardinality(ActiveIds(calls[c].company))

C11_Witness ==
  \E c \in CallIds :
    /\ Done(c, "calculate") /\ calls[c].status = 200 /\ Latest(c)
    /\ calls[c].company = "c1"
    /\ calls[c].found # 0
    /\ \A d \in CallIds : calls[d].kind = "calculate"
    /\ Cardinality(RunDetails(calls[c].run)) = 2

\* C12: when a store call fails during calculate, the call answers with an error
\* and the Draft run the period had before the call is still there.
C12_PriorDraftKept ==
  \A c \in CallIds :
    ( /\ Done(c, "calculate") /\ calls[c].status >= 500
      /\ calls[c].found # 0
      /\ ~ \E d \in CallIds : /\ Done(d, "cancel") /\ calls[d].status = 200
                              /\ calls[d].run = calls[c].found
      /\ Latest(c) )
    => /\ calls[c].found \in DOMAIN runs
       /\ RunDetails(calls[c].found) # {}

\* C13: a calculate for a tenant without active employees answers 404 and
\* creates no run: the period has no run afterwards.
C13_NoEmployeesNoRun ==
  \A c \in CallIds :
    ( /\ Done(c, "calculate")
      /\ calls[c].month # 0 /\ calls[c].year # 0
      /\ ActiveIds(calls[c].company) = {} )
    => /\ calls[c].status = 404
       /\ calls[c].run = 0
       /\ RunsOfPeriod(calls[c].company, calls[c].month, calls[c].year) = {}

C13_Witness ==
  \E c \in CallIds :
    /\ Done(c, "calculate") /\ calls[c].company = "c3" /\ calls[c].status = 404
    /\ \E r \in DOMAIN runs : runs[r].company_id = "c1"

\* C14: cancel on a Draft run sets it Cancelled; cancel on a run that does not
\* exist, or that is Completed or Cancelled, answers with an error and leaves
\* every run as it is.
C14_CancelOnlyDraft ==
  [][ \A c \in CallIds :
        (calls[c].kind = "idle" /\ calls'[c].kind = "cancel")
        => LET r == calls'[c].run IN
           IF r \in DOMAIN runs /\ runs[r].status = "Draft"
             THEN /\ runs' = [runs EXCEPT ![r].status = "Cancelled"]
                  /\ calls'[c].status = 200
             ELSE /\ runs' = runs
                  /\ calls'[c].status >= 400 ]_vars

C14_Witness ==
  \E c, d \in CallIds :
    /\ Done(c, "cancel") /\ Done(d, "cancel")
    /\ calls[c].run = calls[d].run
    /\ calls[c].status = 200 /\ calls[d].status = 404
    /\ runs[calls[c].run].status = "Cancelled"

\* C15: cancel, whether it succeeds or fails, leaves the payroll details, the
\* loan ledger and the deductions' active flags unchanged.
C15_CancelFrame ==
  [][ \A c \in CallIds :
        (calls[c].kind = "idle" /\ calls'[c].kind = "cancel")
        => UNCHANGED <<details, helb, dedActive, applied>> ]_vars

C15_Witness ==
  \E c, d \in CallIds :
    /\ Done(c, "cancel") /\ calls[c].status = 200
    /\ Done(d, "cancel") /\ calls[d].status >= 400
    /\ RunDetails(calls[c].run) # {}
    /\ dedActive = DeductionIds

Totals(run) == <<run.total_gross_pay, run.total_statutory_deductions,
                 run.total_paye, run.total_net_pay>>

\* C16: the totals of a run are written only while the run is Draft.
C16_TotalsOnlyWhileDraft ==
  [][ \A r \in DOMAIN runs \cap DOMAIN runs' :
        Totals(runs'[r]) # Totals(runs[r]) => runs[r].status = "Draft" ]_vars

\* C17: after calculate answered 200, the four totals of its run are the sums of
\* gross_pay, total_statutory_deductions, paye_tax and net_pay over the details
\* stored for that run.
C17_TotalsAreSums ==
  \A c \in CallIds :
    ( /\ Done(c, "calculate") /\ calls[c].status = 200
      /\ calls[c].run \in DOMAIN runs )
    => LET rows == RunDetails(calls[c].run) IN
       /\ rows # {}
       /\ Totals(runs[calls[c].run]) =
            <<SumField(rows, "gross_pay"), SumField(rows, "total_statutory_deductions"),
              SumField(rows, "paye_tax"), SumField(rows, "net_pay")>>

C17_Witness ==
  \E c \in CallIds :
    /\ Done(c, "calculate") /\ calls[c].status = 200
    /\ calls[c].run \in DOMAIN runs
    /\ Cardinality(RunDetails(calls[c].run)) = 2
    /\ runs[calls[c].run].total_paye > 0
    /\ runs[calls[c].run].total_paye < runs[calls[c].run].total_statutory_deductions

\* C19: calculate answers 200 only if its run exists with one detail per active
\* employee and its totals stored; complete answers 200 only if the ledger was
\* reduced for every positive loan deduction and the one-time deductions of the
\* tenant are inactive.
C19_SuccessMeansWritten ==
  \A c \in CallIds :
    /\ ( Done(c, "calculate") /\ calls[c].status = 200 /\ Latest(c) )
       => /\ calls[c].run \in DOMAIN runs
          /\ FullyDetailed(calls[c].run)
          /\ runs[calls[c].run].total_net_pay # Null
    /\ ( Done(c, "complete") /\ calls[c].status = 200 /\ Latest(c) )
       => /\ \A d \in RunDetails(calls[c].run) :
               d.helb_deduction > 0 => d.employee_id \in calls[c].did
          /\ calls[c].deact

\* req.userId of request c, set by verifyToken: every caller is authenticated
Caller(c) == IF c = 1 THEN "u1" ELSE "u2"

\* checkCompanyOwnership(companyId, userId), as the HELB handlers call it
isAuthorized(companyId, userId) == CompanyOwner[companyId] = userId

\* C20: a request changes runs, details, loan ledger or deduction flags only
\* when its caller is authorized for the tenant concerned.
C20_OnlyOwnerChanges ==
  [][ \A c \in CallIds :
        ( /\ calls'[c] # calls[c]
          /\ <<runs, details, helb, dedActive>>' # <<runs, details, helb, dedActive>> )
        => LET tenant == IF calls'[c].kind = "cancel"
                           THEN runs[calls'[c].run].company_id
                           ELSE calls'[c].company
           IN isAuthorized(tenant, Caller(c)) ]_vars

C22_DeactivatedOnlyIfApplied ==
  InFlight = {} =>
    \A x \in DeductionIds \ dedActive :
      \E d \in details :
        /\ x \in d.deductions_details
        /\ d.payroll_run_id \in DOMAIN runs
        /\ runs[d.payroll_run_id].status = "Completed"

\* C23: two runs of one tenant and period that exist together carry different
\* run numbers.
C23_NumberUniquePerPeriod ==
  \A r, q \in DOMAIN runs :
    ( /\ r # q
      /\ runs[r].company_id = runs[q].company_id
      /\ runs[r].payroll_month = runs[q].payroll_month
      /\ runs[r].payroll_year = runs[q].payroll_year )
    => runs[r].payroll_number # runs[q].payroll_number

\* the loop body was applied last
IsDetail == given # <<>> /\ given[1] = "detail"

InWindow(a) == a.start_date <= Today /\ (a.end_date = Null \/ a.end_date >= Today)

\* C26: the allowances applied to an employee are the tenant's active allowances
\* that target the employee or the employee's department and whose validity
\* window contains the as-of date.
C26_AllowancesInWindow ==
  \A d \in details :
    LET e == Employee(d.employee_id)
        applicable == { a \in Allowances :
                          /\ a.company_id = e.company_id /\ a.is_active
                          /\ (a.employee_id = e.id \/ a.department_id = e.department_id)
                          /\ InWindow(a) }
    IN /\ d.total_allowances = SumValues({a \in applicable : a.is_cash}, Mils(e.salary))
       /\ d.total_non_cash_benefits = SumValues({a \in applicable : ~a.is_cash}, Mils(e.salary))

\* C27: the income tax is monotone in the taxable income, never negative, and 0
\* up to 24,000.
C27_TaxMonotone ==
  (given # <<>> /\ given[1] = "paye") =>
    /\ given[2] <= given[3] => worked[1] <= worked[2]
    /\ worked[1] >= 0
    /\ given[2] <= Mils(24000) => worked[1] = 0

C27_Witness ==
  /\ given = <<"paye", Mils(24000), Mils(44875)>>
  /\ worked = <<0, 5845850>>

HalfUp(r, x) == r % 1000 = 0 /\ r - 500 <= x /\ x < r + 500

C30_NoNegativeBaseStored ==
  \A d \in details : d.taxable_income >= 0

====
